---- MODULE Spec2Model ----
(***************************************************************************)
(* A model of src/app.py: the favorites ledger (add_favorite,              *)
(* remove_favorite, get_favorites), the recipe normalizer and the          *)
(* aggregation pipeline (find_matching_recipes, generate_recipes,          *)
(* public_recipes) over the two MongoDB collections StoredRecipes and      *)
(* recipes and the users' favorites arrays.                                *)
(*                                                                         *)
(* JSON / Python values are tagged records: None, PStr, PInt, PList,       *)
(* PDict.  A document or a JSON object is a function from key strings to   *)
(* such values, so that dict.get, `in`, pop and `or` are computed as       *)
(* Python computes them.                                                   *)
(***************************************************************************)
EXTENDS Integers, Sequences, FiniteSets, TLC

VARIABLES
    StoredRecipes,  \* mongo.db.StoredRecipes: the curated collection, in natural order
    recipes,        \* mongo.db.recipes: the ad-hoc collection, in natural order
    favorites,      \* mongo.db.users: user -> the 'favorites' array
    nextOid,        \* number of ObjectIds insert_one has generated
    text_model,     \* TRUE when GOOGLE_API_KEY configured the Gemini client
    request,        \* the request being answered and what the collaborators returned
    response,       \* the handler's answer: status and JSON body
    inflight        \* per worker: the request a thread is in the middle of

vars == <<StoredRecipes, recipes, favorites, nextOid, text_model, request, response, inflight>>

-----------------------------------------------------------------------------
(* Bounds of the model *)

MaxInserts == 1      \* insert_one calls explored by the favorites ledger
MaxCandidates == 3   \* recipes in one answer of the generation service
MaxAdHoc == 1        \* ad-hoc documents present when the aggregation runs
NumWorkers == 2      \* requests handled at the same time

-----------------------------------------------------------------------------
(* Python values *)

None == [t |-> "None"]
PStr(s) == [t |-> "str", v |-> s]
PInt(n) == [t |-> "int", v |-> n]
PList(s) == [t |-> "list", v |-> s]
PDict(d) == [t |-> "dict", v |-> d]

EmptyDict == <<>>

\* bool(v)
Truthy(v) ==
    CASE v.t = "None" -> FALSE
      [] v.t = "str"  -> v.v # ""
      [] v.t = "int"  -> v.v # 0
      [] v.t = "list" -> v.v # <<>>
      [] v.t = "dict" -> DOMAIN v.v # {}
      [] OTHER        -> TRUE

\* a or b
Or(a, b) == IF Truthy(a) THEN a ELSE b

\* d.get(k)
Get(d, k) == IF k \in DOMAIN d THEN d[k] ELSE None

\* d.get(k, default)
GetDefault(d, k, default) == IF k \in DOMAIN d THEN d[k] ELSE default

\* f"{v}"
Format(v) ==
    CASE v.t = "None" -> "None"
      [] v.t = "str"  -> v.v
      [] v.t = "int"  -> ToString(v.v)
      [] OTHER        -> "<object>"

\* The outcome of an expression that raised
Raised == [t |-> "exception"]

-----------------------------------------------------------------------------
(* ObjectIds *)

Users == {"u1", "u2"}

\* The _id of the n-th curated document
CuratedOid(n) == "5f000000000000000000000" \o ToString(n)

StoredOid == CuratedOid(1)

\* The id a fresh insert_one generates
NewOid(n) == "66f1a2b3c4d5e6f7a8b9c0d" \o ToString(n)

AdHocOids == {NewOid(n) : n \in 0..(MaxInserts - 1)}

\* The 24-character hexadecimal strings of the model
HexStrings == {CuratedOid(n) : n \in 1..4} \cup {NewOid(n) : n \in 0..(MaxInserts + MaxAdHoc)}

\* ObjectId.is_valid(x)
ObjectIdIsValid(x) == x.t = "str" /\ x.v \in HexStrings

\* ObjectId(s), for a valid s
ObjectId(x) == [t |-> "ObjectId", v |-> x.v]

\* str(oid)
StrOfOid(oid) == PStr(oid.v)

-----------------------------------------------------------------------------
(* Collections *)

\* collection.find_one({'_id': oid})
FindOne(coll, oid) ==
    LET hits == SelectSeq(coll, LAMBDA d : d["_id"] = oid)
    IN  IF hits = <<>> THEN None ELSE hits[1]

\* collection.insert_one(doc) with inserted_id = oid
InsertOne(coll, doc, oid) ==
    Append(coll, [k \in DOMAIN doc \cup {"_id"} |-> IF k = "_id" THEN oid ELSE doc[k]])

\* delete_one with a filter that matches no document
DeleteNone(coll, oid) == coll

\* collection.delete_one({'_id': oid}): ids are unique in a collection
DeleteOne(coll, oid) == SelectSeq(coll, LAMBDA d : d["_id"] # oid)

\* {'$push': {'favorites': x}}
Push(arr, x) == Append(arr, x)

\* {'$addToSet': {'favorites': x}}
AddToSet(arr, x) ==
    IF \E i \in 1..Len(arr) : arr[i] = x THEN arr ELSE Append(arr, x)

\* {'$pull': {'favorites': x}}
Pull(arr, x) == SelectSeq(arr, LAMBDA y : y # x)

\* users.find_one({'favorites': x}): some user whose array holds x
UsersWith(favs, x) == {u \in Users : \E i \in 1..Len(favs[u]) : favs[u][i] = x}

-----------------------------------------------------------------------------
(* Recipe normalizer *)

\* f"Calories: {recipe.get('nutrition', {}).get('calories', 'N/A')}, Protein: ...g"
NutritionalInfo(recipe) ==
    LET n == GetDefault(recipe, "nutrition", PDict(EmptyDict))
    IN  IF n.t # "dict" THEN Raised
        ELSE PStr("Calories: " \o Format(GetDefault(n.v, "calories", PStr("N/A")))
                  \o ", Protein: " \o Format(GetDefault(n.v, "protein", PStr("N/A"))) \o "g")

\* recipe.get('instructions') or recipe.get('steps')
InstructionsFirst(recipe) == Or(Get(recipe, "instructions"), Get(recipe, "steps"))

\* recipe.get('steps') or recipe.get('instructions')
Instructions(recipe) == Or(Get(recipe, "steps"), Get(recipe, "instructions"))

\* The dict literal of get_favorites
FormatFavorite(recipe) ==
    IF NutritionalInfo(recipe) = Raised THEN Raised
    ELSE [id              |-> StrOfOid(recipe["_id"]),
          title           |-> Get(recipe, "title"),
          description     |-> Get(recipe, "description"),
          ingredients     |-> Get(recipe, "ingredients"),
          instructions    |-> Instructions(recipe),
          cookingTime     |-> Get(recipe, "cooking_time"),
          difficulty      |-> Get(recipe, "difficulty"),
          nutritionalInfo |-> NutritionalInfo(recipe),
          servings        |-> PStr("Serves " \o Format(Get(recipe, "servings")))]

\* The dict literal of generate_recipes: recipe['title'] raises KeyError
FormatMatch(recipe) ==
    IF "title" \notin DOMAIN recipe \/ NutritionalInfo(recipe) = Raised THEN Raised
    ELSE [id              |-> StrOfOid(recipe["_id"]),
          title           |-> recipe["title"],
          description     |-> Get(recipe, "description"),
          ingredients     |-> Get(recipe, "ingredients"),
          instructions    |-> Instructions(recipe),
          cookingTime     |-> Get(recipe, "cooking_time"),
          difficulty      |-> Get(recipe, "difficulty"),
          nutritionalInfo |-> NutritionalInfo(recipe),
          servings        |-> PStr("Serves " \o Format(Get(recipe, "servings")))]

\* [f(x) for x in s]
MapSeq(s, F(_)) == [i \in 1..Len(s) |-> F(s[i])]

AnyRaised(s) == \E i \in 1..Len(s) : s[i] = Raised

-----------------------------------------------------------------------------
(* Favorites ledger *)

Unhandled == [status |-> 500, body |-> [error |-> "Internal Server Error"]]

\* The lookup loop of get_favorites: ad-hoc collection first, then the curated one
ResolveFavorite(fav) ==
    LET r == FindOne(recipes, ObjectId(fav))
    IN  IF r # None THEN r ELSE FindOne(StoredRecipes, ObjectId(fav))

FavoriteRecipes(u) ==
    SelectSeq(MapSeq(favorites[u], ResolveFavorite), LAMBDA r : r # None)

GetFavoritesResponse(u) ==
    LET formatted == MapSeq(FavoriteRecipes(u), FormatFavorite)
    IN  IF AnyRaised(formatted) THEN Unhandled
        ELSE [status |-> 200, body |-> formatted]

get_favorites(u) ==
    /\ request' = [op |-> "get_favorites", user |-> u]
    /\ response' = GetFavoritesResponse(u)
    /\ UNCHANGED <<StoredRecipes, recipes, favorites, nextOid, text_model, inflight>>

\* {key: recipe_data[key] for key in recipe_data if key != 'id'}, then
\* new_recipe['steps'] = new_recipe.pop('instructions')
NewRecipe(recipe_data) ==
    LET copy == [k \in DOMAIN recipe_data \ {"id"} |-> recipe_data[k]]
    IN  IF "instructions" \in DOMAIN copy
        THEN [k \in (DOMAIN copy \ {"instructions"}) \cup {"steps"} |->
                 IF k = "steps" THEN copy["instructions"] ELSE copy[k]]
        ELSE copy

\* The id add_favorite puts in the favorites array
FavoriteId(recipe_data) ==
    IF ObjectIdIsValid(Get(recipe_data, "id")) THEN Get(recipe_data, "id")
    ELSE PStr(NewOid(nextOid))

add_favorite(u, recipe_data) ==
    /\ request' = [op |-> "add_favorite", user |-> u, data |-> recipe_data]
    /\ IF recipe_data = EmptyDict
       THEN /\ response' = [status |-> 400, body |-> [message |-> "No recipe data provided"]]
            /\ UNCHANGED <<recipes, favorites, nextOid>>
       ELSE /\ IF ObjectIdIsValid(Get(recipe_data, "id"))
               THEN UNCHANGED <<recipes, nextOid>>
               ELSE /\ nextOid < MaxInserts
                    /\ recipes' = InsertOne(recipes, NewRecipe(recipe_data),
                                            ObjectId(PStr(NewOid(nextOid))))
                    /\ nextOid' = nextOid + 1
            /\ favorites' = [favorites EXCEPT ![u] = AddToSet(@, FavoriteId(recipe_data))]
            /\ response' = [status |-> 200,
                            body |-> [message |-> "Recipe added to favorites",
                                      recipe_id |-> FavoriteId(recipe_data)]]
    /\ UNCHANGED <<StoredRecipes, text_model, inflight>>

remove_favorite(u, data) ==
    /\ request' = [op |-> "remove_favorite", user |-> u, data |-> data]
    /\ IF "recipe_id" \notin DOMAIN data
       THEN /\ response' = [status |-> 400, body |-> [message |-> "Missing recipe_id"]]
            /\ UNCHANGED <<recipes, favorites>>
       ELSE LET recipe_id == data["recipe_id"]
                pulled == [favorites EXCEPT ![u] = Pull(@, recipe_id)]
                other_users == UsersWith(pulled, recipe_id)
            IN  /\ favorites' = pulled
                /\ IF other_users # {}
                   THEN /\ UNCHANGED recipes
                        /\ response' = [status |-> 200, body |-> [message |-> "Recipe removed from favorites"]]
                   ELSE IF ObjectIdIsValid(recipe_id)
                        THEN /\ recipes' = DeleteOne(recipes, ObjectId(recipe_id))
                             /\ response' = [status |-> 200, body |-> [message |-> "Recipe removed from favorites"]]
                        ELSE /\ UNCHANGED recipes
                             /\ response' = Unhandled
    /\ UNCHANGED <<StoredRecipes, nextOid, text_model, inflight>>

-----------------------------------------------------------------------------
(* Aggregation pipeline *)

\* str.lower() on the strings of the model
Lower(s) ==
    CASE s = "Tomato Soup"  -> "tomato soup"
      [] s = "Garlic Bread" -> "garlic bread"
      [] s = "Stew"         -> "stew"
      [] s = "Minestrone"   -> "minestrone"
      [] s = "Bruschetta"   -> "bruschetta"
      [] s = "Any"          -> "any"
      [] s = "Italian"      -> "italian"
      [] OTHER              -> s

\* The limit of find(query).limit(3)
SearchLimit == 3

\* cursor.limit(n)
Limit(s, n) == SubSeq(s, 1, IF Len(s) < n THEN Len(s) ELSE n)

\* collection.find(query): `hits` are the _ids the text index returns for the
\* search string (none for an empty one); query['cuisine'] is an exact match
Find(coll, user_ingredients, cuisine, hits) ==
    SelectSeq(coll, LAMBDA d :
        /\ user_ingredients # <<>>
        /\ d["_id"].v \in hits
        /\ (Truthy(cuisine) /\ Lower(cuisine.v) # "any") => Get(d, "cuisine") = cuisine)

find_matching_recipes(user_ingredients, cuisine, collections, hits) ==
    (IF "StoredRecipes" \in collections
        THEN Limit(Find(StoredRecipes, user_ingredients, cuisine, hits), SearchLimit)
        ELSE <<>>)
    \o (IF "recipes" \in collections
        THEN Limit(Find(recipes, user_ingredients, cuisine, hits), SearchLimit)
        ELSE <<>>)

\* recipe['id'] = str(recipe.pop('_id'))
PopId(recipe) ==
    [k \in (DOMAIN recipe \ {"_id"}) \cup {"id"} |->
        IF k = "id" THEN StrOfOid(recipe["_id"]) ELSE recipe[k]]

public_recipes(data, hits) ==
    /\ request' = [op |-> "public_recipes", data |-> data, hits |-> hits]
    /\ response' = [status |-> 200,
                    body |-> MapSeq(find_matching_recipes(
                                        GetDefault(data, "ingredients", PList(<<>>)).v,
                                        GetDefault(data, "cuisine", PStr("any")),
                                        {"StoredRecipes"}, hits), PopId)]
    /\ UNCHANGED <<StoredRecipes, recipes, favorites, nextOid, text_model, inflight>>

\* raw_response.replace(<fence>json, "").replace(<fence>, "").strip(): the text
\* is a sequence of tokens, a code fence marker or the payload
CleanResponse(text) == SelectSeq(text, LAMBDA tok : "fence" \notin DOMAIN tok)

\* json.loads(clean_response)
JsonLoads(clean) ==
    IF Len(clean) = 1 /\ "json" \in DOMAIN clean[1] THEN clean[1].json ELSE Raised

\* for recipe in ai_recipes: what the loop iterates over.  A dict yields its
\* keys (the loop body raises on the first), null and numbers are not iterable
Iterable(v) == v.t \in {"list", "dict"}

Iterate(v) ==
    CASE v.t = "list" -> v.v
      [] v.t = "dict" -> IF DOMAIN v.v = {} THEN <<>>
                         ELSE <<PStr(CHOOSE k \in DOMAIN v.v : TRUE)>>

\* recipe['title'].lower() succeeds
HasTitle(recipe) ==
    recipe.t = "dict" /\ "title" \in DOMAIN recipe.v /\ recipe.v["title"].t = "str"

\* The loop without existing_titles.add(...)
RECURSIVE MergeWithoutAdd(_, _, _)
MergeWithoutAdd(final_recipes, existing_titles, ai_recipes) ==
    IF ai_recipes = <<>> THEN [final |-> final_recipes, raised |-> FALSE]
    ELSE LET recipe == Head(ai_recipes)
         IN  IF ~HasTitle(recipe) THEN [final |-> final_recipes, raised |-> TRUE]
             ELSE IF Lower(recipe.v["title"].v) \notin existing_titles
                  THEN MergeWithoutAdd(Append(final_recipes, recipe.v), existing_titles,
                                       Tail(ai_recipes))
                  ELSE MergeWithoutAdd(final_recipes, existing_titles, Tail(ai_recipes))

\* The loop of lines 312-315; an exception leaves final_recipes as it is then
RECURSIVE MergeCandidates(_, _, _)
MergeCandidates(final_recipes, existing_titles, ai_recipes) ==
    IF ai_recipes = <<>> THEN [final |-> final_recipes, raised |-> FALSE]
    ELSE LET recipe == Head(ai_recipes)
         IN  IF ~HasTitle(recipe) THEN [final |-> final_recipes, raised |-> TRUE]
             ELSE IF Lower(recipe.v["title"].v) \notin existing_titles
                  THEN MergeCandidates(Append(final_recipes, recipe.v),
                                       existing_titles \cup {Lower(recipe.v["title"].v)},
                                       Tail(ai_recipes))
                  ELSE MergeCandidates(final_recipes, existing_titles, Tail(ai_recipes))

\* The try block of generate_recipes
GenerationStep(final_recipes, ai) ==
    LET failed == [final |-> final_recipes, raised |-> TRUE]
        ai_recipes == JsonLoads(CleanResponse(ai.text))
    IN  IF ai.raised THEN failed
        ELSE IF ai_recipes = Raised THEN failed
        ELSE IF \E i \in 1..Len(final_recipes) : final_recipes[i].title.t # "str" THEN failed
        ELSE IF ~Iterable(ai_recipes) THEN failed
        ELSE MergeCandidates(final_recipes,
                             {Lower(final_recipes[i].title.v) : i \in 1..Len(final_recipes)},
                             Iterate(ai_recipes))

NotCalled == [raised |-> FALSE, text |-> <<>>, called |-> FALSE]

\* generate_recipes with an except branch that always answers the error
GenerateResponseNoFallback(data, hits, ai) ==
    IF "ingredients" \notin DOMAIN data
    THEN [status |-> 400, body |-> [error |-> "Missing ingredients"]]
    ELSE IF ~text_model
    THEN [status |-> 500, body |-> [error |-> "Gemini API key not configured on the server."]]
    ELSE LET db_matches == find_matching_recipes(data["ingredients"].v,
                                                 GetDefault(data, "cuisine", PStr("any")),
                                                 {"StoredRecipes", "recipes"}, hits)
             final_recipes == MapSeq(db_matches, FormatMatch)
             outcome == GenerationStep(final_recipes, ai)
         IN  IF AnyRaised(final_recipes) THEN Unhandled
             ELSE IF outcome.raised
             THEN [status |-> 500, body |-> [error |-> "Failed to generate recipes."]]
             ELSE [status |-> 200, body |-> outcome.final]

\* generate_recipes with an except branch that only logs
GenerateResponseNoError(data, hits, ai) ==
    IF "ingredients" \notin DOMAIN data
    THEN [status |-> 400, body |-> [error |-> "Missing ingredients"]]
    ELSE IF ~text_model
    THEN [status |-> 500, body |-> [error |-> "Gemini API key not configured on the server."]]
    ELSE LET db_matches == find_matching_recipes(data["ingredients"].v,
                                                 GetDefault(data, "cuisine", PStr("any")),
                                                 {"StoredRecipes", "recipes"}, hits)
             final_recipes == MapSeq(db_matches, FormatMatch)
             outcome == GenerationStep(final_recipes, ai)
         IN  IF AnyRaised(final_recipes) THEN Unhandled
             ELSE [status |-> 200, body |-> outcome.final]

GenerateResponse(data, hits, ai) ==
    IF "ingredients" \notin DOMAIN data
    THEN [status |-> 400, body |-> [error |-> "Missing ingredients"]]
    ELSE IF ~text_model
    THEN [status |-> 500, body |-> [error |-> "Gemini API key not configured on the server."]]
    ELSE LET db_matches == find_matching_recipes(data["ingredients"].v,
                                                 GetDefault(data, "cuisine", PStr("any")),
                                                 {"StoredRecipes", "recipes"}, hits)
             final_recipes == MapSeq(db_matches, FormatMatch)
             outcome == GenerationStep(final_recipes, ai)
         IN  IF AnyRaised(final_recipes) THEN Unhandled
             ELSE IF outcome.raised /\ outcome.final = <<>>
             THEN [status |-> 500, body |-> [error |-> "Failed to generate recipes."]]
             ELSE [status |-> 200, body |-> outcome.final]

\* The generation service is called only when the database matches were formatted
GenerationCalled(data, hits) ==
    /\ "ingredients" \in DOMAIN data
    /\ text_model
    /\ ~AnyRaised(MapSeq(find_matching_recipes(data["ingredients"].v,
                                               GetDefault(data, "cuisine", PStr("any")),
                                               {"StoredRecipes", "recipes"}, hits), FormatMatch))

generate_recipes(data, hits, ai) ==
    /\ request' = [op |-> "generate_recipes", data |-> data,
                   db_matches |-> IF "ingredients" \in DOMAIN data /\ text_model
                                  THEN find_matching_recipes(data["ingredients"].v,
                                            GetDefault(data, "cuisine", PStr("any")),
                                            {"StoredRecipes", "recipes"}, hits)
                                  ELSE <<>>,
                   ai |-> IF GenerationCalled(data, hits) THEN ai ELSE NotCalled]
    /\ response' = GenerateResponse(data, hits, ai)
    /\ UNCHANGED <<StoredRecipes, recipes, favorites, nextOid, text_model, inflight>>

-----------------------------------------------------------------------------
(* Inputs *)

Ingredient(name, quantity) == PDict([name |-> PStr(name), quantity |-> PStr(quantity)])

\* A recipe in the canonical shape, as the generation service returns it
GeneratedSoup ==
    [title           |-> PStr("Tomato Soup"),
     description     |-> PStr("A warm soup"),
     ingredients     |-> PList(<<Ingredient("tomato", "4")>>),
     instructions    |-> PList(<<"Chop", "Boil">>),
     cookingTime     |-> PInt(30),
     difficulty      |-> PStr("Easy"),
     nutritionalInfo |-> PStr("Calories: 120, Protein: 4g"),
     servings        |-> PStr("Serves 2")]

\* The same shape with a client-side id that is no ObjectId
GeneratedBread ==
    [id              |-> PStr("ai-1"),
     title           |-> PStr("Garlic Bread"),
     description     |-> PStr("Crisp"),
     ingredients     |-> PList(<<Ingredient("bread", "1"), Ingredient("garlic", "2")>>),
     instructions    |-> PList(<<"Toast">>),
     cookingTime     |-> PInt(10),
     difficulty      |-> PStr("Easy"),
     nutritionalInfo |-> PStr("Calories: 200, Protein: 5g"),
     servings        |-> PStr("Serves 4")]

CuratedStew ==
    [_id          |-> ObjectId(PStr(StoredOid)),
     title        |-> PStr("Stew"),
     description  |-> PStr("Slow"),
     ingredients  |-> PList(<<Ingredient("beef", "1")>>),
     steps        |-> PList(<<"Simmer">>),
     cooking_time |-> PInt(90),
     difficulty   |-> PStr("Medium"),
     nutrition    |-> PDict([calories |-> PInt(400), protein |-> PInt(30)]),
     servings     |-> PInt(4)]

RecipeIds == {PStr(h) : h \in {StoredOid} \cup AdHocOids} \cup {PStr("ai-1")}

AddInputs == {EmptyDict, GeneratedSoup, GeneratedBread}
                 \cup {[id |-> r] : r \in RecipeIds \ {PStr("ai-1")}}

RemoveInputs == {EmptyDict} \cup {[recipe_id |-> r] : r \in RecipeIds}

Workers == 1..NumWorkers

Idle == [pc |-> "idle"]

\* The curated collection the aggregation searches
CuratedCollection ==
    <<CuratedStew,
      [_id |-> ObjectId(PStr(CuratedOid(2))), title |-> PStr("Tomato Soup"),
       cuisine |-> PStr("Italian"), instructions |-> PList(<<"Blend">>),
       nutrition |-> PDict([calories |-> PInt(120)]), servings |-> PInt(2)],
      [_id |-> ObjectId(PStr(CuratedOid(3))), title |-> PStr("Minestrone"),
       cuisine |-> PStr("Italian"), steps |-> PList(<<"Dice", "Simmer">>)],
      [_id |-> ObjectId(PStr(CuratedOid(4))), title |-> PStr("Bruschetta"),
       cuisine |-> PStr("Italian"), steps |-> PList(<<"Grill">>), servings |-> PStr("six")]>>

\* Documents as add_favorite persists them (without their _id)
AdHocShapes ==
    {NewRecipe(GeneratedSoup), NewRecipe(GeneratedBread),
     NewRecipe([title |-> None, description |-> PStr("untitled")])}

SeqsUpTo(S, n) == UNION {[1..k -> S] : k \in 0..n}

\* The recipe objects the generation service may put in its answer
Candidates ==
    {PDict([title |-> PStr("tomato soup")]),
     PDict([title |-> PStr("Garlic Bread")]),
     PDict([title |-> PStr("garlic bread")]),
     PDict(EmptyDict)}

\* The markers of a fenced code block: three backticks and "json", three backticks
OpeningFence == [fence |-> "json"]
ClosingFence == [fence |-> ""]

JsonPayloads ==
    {[json |-> PList(c)] : c \in SeqsUpTo(Candidates, MaxCandidates)}
        \cup {[json |-> PDict([error |-> PStr("quota exceeded")])], [json |-> None]}

Payloads == JsonPayloads \cup {[prose |-> "Here are some recipes"]}

\* What text_model.generate_content(prompt) does: raise, or answer a text, which
\* may wrap the payload in code fences
AiOutcomes ==
    {[raised |-> TRUE, text |-> <<>>, called |-> TRUE]}
        \cup {[raised |-> FALSE, text |-> <<p>>, called |-> TRUE] : p \in Payloads}
        \cup {[raised |-> FALSE, text |-> <<OpeningFence, p, ClosingFence>>, called |-> TRUE] :
                 p \in {[json |-> PList(c)] : c \in SeqsUpTo(Candidates, 1)}
                          \cup {[prose |-> "Here are some recipes"]}}

GenerateInputs ==
    {EmptyDict,
     [ingredients |-> PList(<<"tomato">>)],
     [ingredients |-> PList(<<"tomato", "garlic">>), cuisine |-> PStr("Italian"),
      servings |-> PInt(4)]}

PublicInputs == GenerateInputs \cup {[ingredients |-> PList(<<>>), cuisine |-> PStr("Any")]}

\* The _ids the text index may return
Hits == SUBSET ({StoredRecipes[i]["_id"].v : i \in 1..Len(StoredRecipes)}
                    \cup {recipes[i]["_id"].v : i \in 1..Len(recipes)})

Startup ==
    /\ request = [op |-> "startup"]
    /\ response = [status |-> 0, body |-> EmptyDict]
    /\ inflight = [w \in Workers |-> Idle]

-----------------------------------------------------------------------------
(* Requests served one at a time *)

Init ==
    /\ StoredRecipes = <<CuratedStew>>
    /\ recipes = <<>>
    /\ favorites = [u \in Users |-> <<>>]
    /\ nextOid = 0
    /\ text_model = TRUE
    /\ Startup

Next ==
    \/ \E u \in Users, d \in AddInputs : add_favorite(u, d)
    \/ \E u \in Users, d \in RemoveInputs : remove_favorite(u, d)
    \/ \E u \in Users : get_favorites(u)

Spec == Init /\ [][Next]_vars

-----------------------------------------------------------------------------
(* One aggregation request against a database that holds ad-hoc recipes *)

InitAgg ==
    /\ StoredRecipes = CuratedCollection
    /\ \E docs \in SeqsUpTo(AdHocShapes, MaxAdHoc) :
          /\ recipes = [i \in 1..Len(docs) |->
                           InsertOne(<<>>, docs[i], ObjectId(PStr(NewOid(i - 1))))[1]]
          /\ favorites = [u \in Users |->
                             IF u = "u1" THEN [i \in 1..Len(docs) |-> PStr(NewOid(i - 1))]
                             ELSE <<>>]
          /\ nextOid = Len(docs)
    /\ text_model \in BOOLEAN
    /\ Startup

\* The request is refused before the search and the generation service are used
Refused(data) == "ingredients" \notin DOMAIN data \/ ~text_model

NextAgg ==
    \/ /\ request.op = "startup"
       /\ \E data \in {d \in GenerateInputs : Refused(d)} :
             generate_recipes(data, {}, NotCalled)
    \/ /\ request.op = "startup"
       /\ \E data \in {d \in GenerateInputs : ~Refused(d)}, hits \in Hits, ai \in AiOutcomes :
             generate_recipes(data, hits, ai)
    \/ /\ request.op = "startup"
       /\ \E data \in PublicInputs, hits \in Hits : public_recipes(data, hits)

SpecAgg == InitAgg /\ [][NextAgg]_vars

-----------------------------------------------------------------------------
(* One listing or aggregation request over a curated record of any shape *)

Absent == [t |-> "absent"]

\* A field may be absent, null, or hold one of `values`
Optional(values) == {Absent, None} \cup values

\* The stored record with the fields that are not Absent
StoredRecord(fields) ==
    [k \in {"_id", "title"} \cup {f \in DOMAIN fields : fields[f] # Absent} |->
        CASE k = "_id"   -> ObjectId(PStr(StoredOid))
          [] k = "title" -> PStr("Stew")
          [] OTHER       -> fields[k]]

InitNorm ==
    /\ \E description \in Optional({PStr("Slow")}),
          ingredients \in {Absent, PList(<<Ingredient("beef", "1")>>)},
          steps \in Optional({PList(<<>>), PList(<<"Simmer">>)}),
          instructions \in Optional({PList(<<>>), PList(<<"Bake">>)}),
          cooking_time \in Optional({PInt(90)}),
          difficulty \in {Absent, PStr("Medium")},
          nutrition \in Optional({PDict(EmptyDict),
                                  PDict([calories |-> PInt(400)]),
                                  PDict([calories |-> PInt(400), protein |-> PInt(30)]),
                                  PDict([calories |-> None, protein |-> None])}),
          servings \in Optional({PInt(4)}) :
          StoredRecipes = <<StoredRecord([description |-> description,
                                          ingredients |-> ingredients,
                                          steps |-> steps,
                                          instructions |-> instructions,
                                          cooking_time |-> cooking_time,
                                          difficulty |-> difficulty,
                                          nutrition |-> nutrition,
                                          servings |-> servings])>>
    /\ recipes = <<>>
    /\ favorites = [u \in Users |-> IF u = "u1" THEN <<PStr(StoredOid)>> ELSE <<>>]
    /\ nextOid = 0
    /\ text_model = TRUE
    /\ Startup

NormAiOutcomes ==
    {[raised |-> TRUE, text |-> <<>>, called |-> TRUE],
     [raised |-> FALSE, text |-> <<[json |-> PList(<<PDict([title |-> PStr("Garlic Bread")])>>)]>>,
      called |-> TRUE]}

NextNorm ==
    \/ /\ request.op = "startup"
       /\ \E u \in Users : get_favorites(u)
    \/ /\ request.op = "startup"
       /\ \E hits \in Hits, ai \in NormAiOutcomes :
             generate_recipes([ingredients |-> PList(<<"beef">>)], hits, ai)

SpecNorm == InitNorm /\ [][NextNorm]_vars

-----------------------------------------------------------------------------
(* Requests handled at the same time: one step per store operation *)

\* add_favorite up to its update_one: validation, and insert_one for a recipe
\* without a durable id
add_insert(w, u, recipe_data) ==
    /\ inflight[w] = Idle
    /\ recipe_data # EmptyDict
    /\ IF ObjectIdIsValid(Get(recipe_data, "id"))
       THEN UNCHANGED <<recipes, nextOid>>
       ELSE /\ nextOid < MaxInserts
            /\ recipes' = InsertOne(recipes, NewRecipe(recipe_data),
                                    ObjectId(PStr(NewOid(nextOid))))
            /\ nextOid' = nextOid + 1
    /\ inflight' = [inflight EXCEPT ![w] =
                       [pc |-> "add_update", user |-> u, recipe_id |-> FavoriteId(recipe_data)]]
    /\ UNCHANGED <<StoredRecipes, favorites, text_model, request, response>>

\* users.update_one(..., {'$addToSet': ...}) and the answer
add_update(w) ==
    /\ inflight[w].pc = "add_update"
    /\ favorites' = [favorites EXCEPT ![inflight[w].user] = AddToSet(@, inflight[w].recipe_id)]
    /\ inflight' = [inflight EXCEPT ![w] = Idle]
    /\ UNCHANGED <<StoredRecipes, recipes, nextOid, text_model, request, response>>

\* users.update_one(..., {'$pull': ...})
remove_pull(w, u, data) ==
    /\ inflight[w] = Idle
    /\ "recipe_id" \in DOMAIN data
    /\ favorites' = [favorites EXCEPT ![u] = Pull(@, data["recipe_id"])]
    /\ inflight' = [inflight EXCEPT ![w] =
                       [pc |-> "remove_find", user |-> u, recipe_id |-> data["recipe_id"]]]
    /\ UNCHANGED <<StoredRecipes, recipes, nextOid, text_model, request, response>>

\* other_users = users.find_one({'favorites': recipe_id})
remove_find(w) ==
    /\ inflight[w].pc = "remove_find"
    /\ inflight' = [inflight EXCEPT ![w] =
                       IF UsersWith(favorites, inflight[w].recipe_id) # {} THEN Idle
                       ELSE [@ EXCEPT !.pc = "remove_delete"]]
    /\ UNCHANGED <<StoredRecipes, recipes, favorites, nextOid, text_model, request, response>>

\* recipes.delete_one({'_id': ObjectId(recipe_id)}), which raises for an invalid id
remove_delete(w) ==
    /\ inflight[w].pc = "remove_delete"
    /\ recipes' = IF ObjectIdIsValid(inflight[w].recipe_id)
                  THEN DeleteOne(recipes, ObjectId(inflight[w].recipe_id))
                  ELSE recipes
    /\ inflight' = [inflight EXCEPT ![w] = Idle]
    /\ UNCHANGED <<StoredRecipes, favorites, nextOid, text_model, request, response>>

\* A client asks to unfavorite a recipe of the user's own list
OwnFavorites(u) == {[recipe_id |-> favorites[u][i]] : i \in 1..Len(favorites[u])}

\* A client asks to favorite a new recipe, or a stored one by the id it was shown
ShownRecipes ==
    {d \in AddInputs :
        ObjectIdIsValid(Get(d, "id"))
        => \/ FindOne(recipes, ObjectId(Get(d, "id"))) # None
           \/ FindOne(StoredRecipes, ObjectId(Get(d, "id"))) # None}

NextConc ==
    \/ \E w \in Workers, u \in Users, d \in ShownRecipes : add_insert(w, u, d)
    \/ \E w \in Workers : add_update(w)
    \/ \E w \in Workers, u \in Users : \E d \in OwnFavorites(u) : remove_pull(w, u, d)
    \/ \E w \in Workers : remove_find(w)
    \/ \E w \in Workers : remove_delete(w)

SpecConc == Init /\ [][NextConc]_vars

-----------------------------------------------------------------------------
(* The favorites ledger's properties *)

Persisted(r) == FindOne(recipes, ObjectId(r)) # None

Occurrences(arr, x) == Cardinality({i \in 1..Len(arr) : arr[i] = x})

DurableIds == {r \in RecipeIds : ObjectIdIsValid(r)}

\* C1: when remove_favorite(u, r) has completed and no other account's favorites
\* holds r, the ad-hoc collection holds no record r; when another account still
\* holds r, the ad-hoc collection is left as it was.
GarbageCollectionOnUnfavorite ==
    [][\A u \in Users, r \in DurableIds :
          remove_favorite(u, [recipe_id |-> r]) =>
              IF UsersWith(favorites', r) \ {u} = {}
              THEN FindOne(recipes', ObjectId(r)) = None
              ELSE recipes' = recipes]_vars

\* The only reference to the inserted record was removed, and the record is gone
UnfavoritedRecordDeleted ==
    /\ request.op = "remove_favorite"
    /\ response.status = 200
    /\ request.data = [recipe_id |-> PStr(NewOid(0))]
    /\ nextOid = 1
    /\ UsersWith(favorites, PStr(NewOid(0))) = {}
    /\ ~Persisted(PStr(NewOid(0)))

\* C2: after add_favorite(u, recipe) for a recipe without a durable id, listing
\* u's favorites succeeds and holds a recipe with the assigned id whose title,
\* description, ingredients, instructions, cookingTime and difficulty are the
\* submitted ones.
FavoritesRoundTrip ==
    (/\ request.op = "add_favorite"
     /\ response.status = 200
     /\ ~ObjectIdIsValid(Get(request.data, "id")))
    => LET listing == GetFavoritesResponse(request.user)
       IN  /\ listing.status = 200
           /\ \E i \in 1..Len(listing.body) :
                 /\ listing.body[i].id = response.body.recipe_id
                 /\ \A f \in {"title", "description", "ingredients", "instructions",
                              "cookingTime", "difficulty"} :
                       listing.body[i][f] = Get(request.data, f)

\* C3: add_favorite(u, r) for a durable id r leaves exactly one occurrence of r
\* in u's favorites, and when r was already there it changes neither the
\* favorites nor the recipe collections.
FavoritesIdempotence ==
    [][\A u \in Users, r \in DurableIds :
          add_favorite(u, [id |-> r]) =>
              /\ Occurrences(favorites'[u], r) = 1
              /\ Occurrences(favorites[u], r) > 0 =>
                    UNCHANGED <<favorites, recipes, StoredRecipes>>]_vars

\* The curated id was added again after another id had been added behind it
AddedTwice ==
    /\ request.op = "add_favorite"
    /\ request.data = [id |-> PStr(StoredOid)]
    /\ response.status = 200
    /\ Len(favorites[request.user]) = 2
    /\ favorites[request.user][1] = PStr(StoredOid)

-----------------------------------------------------------------------------
(* The aggregation pipeline's properties *)

Generating == request.op = "generate_recipes" /\ request.ai.called

CallRaised == request.ai.raised

\* What is left of the answer once the fence markers are taken out
Answer == SelectSeq(request.ai.text, LAMBDA tok : DOMAIN tok # {"fence"})

AnswerIsJson == ~CallRaised /\ Len(Answer) = 1 /\ DOMAIN Answer[1] = {"json"}

AnswerIsList == AnswerIsJson /\ Answer[1].json.t = "list"

Cands == Answer[1].json.v

WellFormed(c) == c.t = "dict" /\ "title" \in DOMAIN c.v /\ c.v["title"].t = "str"

StoredTitlesAreStrings ==
    \A i \in 1..Len(request.db_matches) : request.db_matches[i]["title"].t = "str"

StoredTitles ==
    {Lower(request.db_matches[i]["title"].v) : i \in 1..Len(request.db_matches)}

\* A parsed answer that cannot be merged: a stored title that has no lower(), an
\* answer that is not a list of recipes, a recipe without a title string
ProcessingRaises ==
    /\ AnswerIsJson
    /\ \/ ~StoredTitlesAreStrings
       \/ Answer[1].json.t \notin {"list", "dict"}
       \/ Answer[1].json.t = "dict" /\ DOMAIN Answer[1].json.v # {}
       \/ AnswerIsList /\ \E i \in 1..Len(Cands) : ~WellFormed(Cands[i])

GenerationFailed == Generating /\ (CallRaised \/ ~AnswerIsJson \/ ProcessingRaises)

RECURSIVE Ascending(_)
Ascending(S) ==
    IF S = {} THEN <<>>
    ELSE LET m == CHOOSE x \in S : \A y \in S : x <= y
         IN  <<m>> \o Ascending(S \ {m})

\* The candidates whose lowercased title is neither a stored title nor the
\* lowercased title of an earlier candidate, in their order
Survivors(cands) ==
    LET keep == {i \in 1..Len(cands) :
                    /\ Lower(cands[i].v["title"].v) \notin StoredTitles
                    /\ \A j \in 1..(i - 1) :
                          Lower(cands[j].v["title"].v) # Lower(cands[i].v["title"].v)}
        order == Ascending(keep)
    IN  [k \in 1..Len(order) |-> cands[order[k]].v]

\* The candidates in front of the first one that cannot be processed
BeforeFailure ==
    IF AnswerIsList /\ StoredTitlesAreStrings
    THEN LET bad == {i \in 1..Len(Cands) : ~WellFormed(Cands[i])}
         IN  SubSeq(Cands, 1, (CHOOSE i \in bad : \A j \in bad : i <= j) - 1)
    ELSE <<>>

NormalizedMatches == MapSeq(request.db_matches, FormatMatch)

TitlesUniqueInResponse ==
    (request.op = "generate_recipes" /\ response.status = 200)
    => \A i, j \in 1..Len(response.body) :
          (/\ i < j
           /\ response.body[i].title.t = "str"
           /\ response.body[j].title.t = "str")
          => Lower(response.body[i].title.v) # Lower(response.body[j].title.v)

\* C7: with stored titles that are strings and an answer that is a list of
\* titled recipes, the response is the normalized stored matches followed by
\* exactly the candidates whose lowercased title is neither a stored title nor
\* that of an earlier candidate, in input order and with their own casing.
DuplicateFilter ==
    (/\ Generating
     /\ AnswerIsList
     /\ StoredTitlesAreStrings
     /\ \A i \in 1..Len(Cands) : WellFormed(Cands[i]))
    => /\ response.status = 200
       /\ response.body = NormalizedMatches \o Survivors(Cands)

\* Selected {"Tomato Soup"}, candidates tomato soup, Garlic Bread, garlic bread
DuplicateFilterExample ==
    /\ Generating
    /\ AnswerIsList
    /\ Len(request.db_matches) = 1
    /\ request.db_matches[1]["title"] = PStr("Tomato Soup")
    /\ Cands = <<PDict([title |-> PStr("tomato soup")]),
                 PDict([title |-> PStr("Garlic Bread")]),
                 PDict([title |-> PStr("garlic bread")])>>
    /\ response.status = 200
    /\ Len(response.body) = 2
    /\ response.body[2] = [title |-> PStr("Garlic Bread")]

-----------------------------------------------------------------------------
(* The normalizer's properties *)

Normalizing == request.op \in {"get_favorites", "generate_recipes"}

\* The stored records the answer normalizes, in the order of the answer
Sources ==
    IF request.op = "get_favorites" THEN FavoriteRecipes(request.user)
    ELSE request.db_matches

NormalizationNeverFails ==
    Normalizing
    => /\ response # Unhandled
       /\ response.status = 200 =>
             \A i \in 1..Len(Sources) :
                 GetDefault(Sources[i], "nutrition", PDict(EmptyDict)) = PDict(EmptyDict)
                 => response.body[i].nutritionalInfo = PStr("Calories: N/A, Protein: N/Ag")

-----------------------------------------------------------------------------
(* Requests handled at the same time *)

\* C10: under every interleaving of the store operations of add_favorite and
\* remove_favorite requests of different users, remove_favorite never deletes a
\* record while another account's favorites hold its id.
RemoveNeverDeletesReferenced ==
    [][\A w \in Workers :
          (remove_delete(w) /\ Persisted(inflight[w].recipe_id))
          => UsersWith(favorites', inflight[w].recipe_id) \ {inflight[w].user} = {}]_vars

====
